---- MODULE Spec2Model ----
(***************************************************************************)
(* Model of the otelhttpclient measuring transport (httpclient.Transport)  *)
(* and of its attribute extractor (package semconv: ClientRequest,         *)
(* ClientResponse, peerName, splitHostPort).                                *)
(*                                                                         *)
(* Go strings are modelled as sequences of one-character strings, so that  *)
(* indexing, slicing and parsing are computed as the code computes them.   *)
(* Go indices are 0-based; the helpers below keep Go's indices.            *)
(***************************************************************************)
EXTENDS Integers, Sequences, FiniteSets, Bags, TLC

VARIABLES
    t,          \* the Transport value built by NewTransport: [rt, httpLatency]
    now,        \* the monotonic clock read by time.Now / time.Since (nanoseconds)
    calls,      \* per RoundTrip call: its position and its stack-local values
    recorded,   \* the histogram: the bag of measurements passed to Record
    in,         \* semconv run: how the authority under test was written
    req,        \* semconv run: the request handed to ClientRequest
    spc,        \* semconv run: position ("start", "split", "done")
    hp,         \* semconv run: the result of splitHostPort(req.Host)
    attrs       \* semconv run: the result of ClientRequest(req)

vars == <<t, now, calls, recorded, in, req, spc, hp, attrs>>
transportVars == <<t, now, calls, recorded>>
semconvVars == <<in, req, spc, hp, attrs>>

(***************************************************************************)
(* Bounds of the model.                                                    *)
(***************************************************************************)
MaxLen == 4        \* longest raw authority string enumerated
MaxCalls == 2      \* RoundTrip calls that may be in flight together
MaxTime == 1       \* last clock reading

(***************************************************************************)
(* Program constants.                                                      *)
(***************************************************************************)
PortAbsent == -1
MaxUint16 == 65535
Millisecond == 1000000
NanosPerSecond == 1000000000

HistogramMeasureUnitSeconds == "s"
ClientRequestDuration == "http.client.duration"
httpRequestMethodKey == "http.request.method"
httpResponseStatusCodeKey == "http.response.status_code"
serverAddressKey == "server.address"

(***************************************************************************)
(* Go string helpers (package strings, slicing).                           *)
(***************************************************************************)
HasPrefix(s, ch) == Len(s) > 0 /\ s[1] = ch

\* bytealg.IndexByteString: 0-based index of the first ch in s, or -1
IndexByteString(s, ch) ==
    IF \E i \in 1..Len(s) : s[i] = ch
    THEN (CHOOSE i \in 1..Len(s) : s[i] = ch /\ \A j \in 1..(i - 1) : s[j] # ch) - 1
    ELSE -1

\* strings.LastIndex with a one-byte separator: 0-based index of the last ch, or -1
LastIndex(s, ch) ==
    IF \E i \in 1..Len(s) : s[i] = ch
    THEN (CHOOSE i \in 1..Len(s) : s[i] = ch /\ \A j \in (i + 1)..Len(s) : s[j] # ch) - 1
    ELSE -1

\* s[lo:hi] and s[lo:]
Slice(s, lo, hi) == SubSeq(s, lo + 1, hi)
SliceFrom(s, lo) == SubSeq(s, lo + 1, Len(s))

(***************************************************************************)
(* net.SplitHostPort, as the Go standard library computes it.               *)
(***************************************************************************)
AddrErr == [host |-> <<>>, port |-> <<>>, err |-> TRUE]

SplitHostPort(hostport) ==
    LET i == LastIndex(hostport, ":")
        tail(j, k, host) ==
            IF IndexByteString(SliceFrom(hostport, j), "[") >= 0 THEN AddrErr
            ELSE IF IndexByteString(SliceFrom(hostport, k), "]") >= 0 THEN AddrErr
            ELSE [host |-> host, port |-> SliceFrom(hostport, i + 1), err |-> FALSE]
    IN  IF i < 0 THEN AddrErr
        ELSE IF hostport[1] = "["
        THEN LET end == IndexByteString(hostport, "]")
             IN  IF end < 0 THEN AddrErr
                 ELSE IF end + 1 = Len(hostport) THEN AddrErr
                 ELSE IF end + 1 = i THEN tail(1, end + 1, Slice(hostport, 1, end))
                 ELSE AddrErr
        ELSE LET host == Slice(hostport, 0, i)
             IN  IF IndexByteString(host, ":") >= 0 THEN AddrErr
                 ELSE tail(0, 0, host)

(***************************************************************************)
(* strconv.ParseUint(s, 10, 16) and strconv.Itoa.                          *)
(***************************************************************************)
Digits == <<"0", "1", "2", "3", "4", "5", "6", "7", "8", "9">>
IsDigit(ch) == \E d \in 1..10 : Digits[d] = ch
DigitVal(ch) == (CHOOSE d \in 1..10 : Digits[d] = ch) - 1

\* The digit loop of ParseUint: n is the value so far; -1 reports a value
\* that left the 16-bit range.
RECURSIVE ParseDigits(_, _)
ParseDigits(s, n) ==
    IF s = <<>> THEN n
    ELSE LET n1 == 10 * n + DigitVal(s[1])
         IN  IF n1 > MaxUint16 THEN -1 ELSE ParseDigits(Tail(s), n1)

\* [val, err]: err on empty text, on a non-digit, and on a value above 65535
ParseUint(s) ==
    IF s = <<>> THEN [val |-> 0, err |-> TRUE]
    ELSE IF \E k \in 1..Len(s) : ~IsDigit(s[k]) THEN [val |-> 0, err |-> TRUE]
    ELSE IF ParseDigits(s, 0) < 0 THEN [val |-> MaxUint16, err |-> TRUE]
    ELSE [val |-> ParseDigits(s, 0), err |-> FALSE]

RECURSIVE Itoa(_)
Itoa(n) == IF n < 10 THEN <<Digits[n + 1]>> ELSE Itoa(n \div 10) \o <<Digits[(n % 10) + 1]>>

(***************************************************************************)
(* package semconv                                                         *)
(***************************************************************************)
\* Variant: a failed port parse also clears the host.
splitHostPortClearHost(hostport) ==
    LET full ==
            LET shp == SplitHostPort(hostport)
                pu == ParseUint(shp.port)
            IN  IF shp.err \/ pu.err THEN [host |-> <<>>, port |-> PortAbsent]
                ELSE [host |-> shp.host, port |-> pu.val]
    IN  IF HasPrefix(hostport, "[")
        THEN LET addrEnd == LastIndex(hostport, "]")
             IN  IF addrEnd < 0 THEN [host |-> <<>>, port |-> PortAbsent]
                 ELSE IF LastIndex(SliceFrom(hostport, addrEnd), ":") < 0
                 THEN [host |-> Slice(hostport, 1, addrEnd), port |-> PortAbsent]
                 ELSE full
        ELSE IF LastIndex(hostport, ":") < 0
             THEN [host |-> hostport, port |-> PortAbsent]
             ELSE full

\* Variant: port 0 is taken for "no port".
splitHostPortZeroAbsent(hostport) ==
    LET full ==
            LET shp == SplitHostPort(hostport)
                pu == ParseUint(shp.port)
            IN  IF shp.err THEN [host |-> shp.host, port |-> PortAbsent]
                ELSE IF pu.err \/ pu.val = 0 THEN [host |-> shp.host, port |-> PortAbsent]
                ELSE [host |-> shp.host, port |-> pu.val]
    IN  IF HasPrefix(hostport, "[")
        THEN LET addrEnd == LastIndex(hostport, "]")
             IN  IF addrEnd < 0 THEN [host |-> <<>>, port |-> PortAbsent]
                 ELSE IF LastIndex(SliceFrom(hostport, addrEnd), ":") < 0
                 THEN [host |-> Slice(hostport, 1, addrEnd), port |-> PortAbsent]
                 ELSE full
        ELSE IF LastIndex(hostport, ":") < 0
             THEN [host |-> hostport, port |-> PortAbsent]
             ELSE full

\* splitHostPort: [host, port]; port = PortAbsent when not provided or unparsable.
\* The named result host is assigned by net.SplitHostPort before the port is
\* parsed, and the bare returns hand back whatever host and port hold.
splitHostPort(hostport) ==
    LET full ==
            LET shp == SplitHostPort(hostport)
                pu == ParseUint(shp.port)
            IN  IF shp.err THEN [host |-> shp.host, port |-> PortAbsent]
                ELSE IF pu.err THEN [host |-> shp.host, port |-> PortAbsent]
                ELSE [host |-> shp.host, port |-> pu.val]
    IN  IF HasPrefix(hostport, "[")
        THEN LET addrEnd == LastIndex(hostport, "]")
             IN  IF addrEnd < 0 THEN [host |-> <<>>, port |-> PortAbsent]
                 ELSE IF LastIndex(SliceFrom(hostport, addrEnd), ":") < 0
                 THEN [host |-> Slice(hostport, 1, addrEnd), port |-> PortAbsent]
                 ELSE full
        ELSE IF LastIndex(hostport, ":") < 0
             THEN [host |-> hostport, port |-> PortAbsent]
             ELSE full

\* attribute.KeyValue: Key plus a Value of [Type, Numeric, Stringly]
StringAttr(key, s) == [Key |-> key, Value |-> [Type |-> "STRING", Numeric |-> 0, Stringly |-> s]]
IntAttr(key, n) == [Key |-> key, Value |-> [Type |-> "INT64", Numeric |-> n, Stringly |-> <<>>]]

\* (*httpConv).peerName: splits its argument again
peerName(address) ==
    LET s == splitHostPort(address)
        n == IF s.host # <<>> THEN (IF s.port > 0 THEN 2 ELSE 1) ELSE 0
    IN  IF n = 0 THEN <<>> ELSE <<StringAttr(serverAddressKey, s.host)>>

ClientRequest(r) ==
    LET peer == splitHostPort(r.Host).host
    IN  <<StringAttr(httpRequestMethodKey, r.Method)>>
            \o (IF peer # <<>> THEN peerName(peer) ELSE <<>>)

ClientResponse(res) ==
    IF res.StatusCode > 0 THEN <<IntAttr(httpRequestMethodKey, res.StatusCode)>> ELSE <<>>

(***************************************************************************)
(* Authorities under test.  Each input records how it was written (form,   *)
(* host part h, port number p or port text ptxt) next to the text itself.  *)
(***************************************************************************)
Alphabet == {"a", ":", "[", "]", "0"}
RawStrings == UNION {[1..k -> Alphabet] : k \in 0..MaxLen}

BareHosts == {<<"a">>, <<"a", ".", "b">>, <<"a", "%", "e">>}
BracketHosts == {<<":", ":", "1">>, <<"f", ":", ":", "1">>}
Zones == {<<"e">>}
PortSample == {0, 1, 80, 443, 8080, 65535}
BadPortTexts == {<<>>, <<"x">>, <<"-", "1">>, <<"6", "5", "5", "3", "6">>, <<"9", "9", "9", "9", "9">>}
Methods == {<<"G", "E", "T">>, <<"P", "O", "S", "T">>}

Input(form, h, p, ptxt, text) == [form |-> form, h |-> h, p |-> p, ptxt |-> ptxt, hostport |-> text]
Bracketed(h) == <<"[">> \o h \o <<"]">>
WithZone(h, z) == h \o <<"%">> \o z

Inputs ==
    {Input("raw", <<>>, PortAbsent, <<>>, s) : s \in RawStrings}
    \cup {Input("empty", <<>>, PortAbsent, <<>>, <<>>)}
    \cup {Input("host", h, PortAbsent, <<>>, h) : h \in BareHosts}
    \cup {Input("host_port", h, p, Itoa(p), h \o <<":">> \o Itoa(p)) : h \in BareHosts, p \in PortSample}
    \cup {Input("bracket", h, PortAbsent, <<>>, Bracketed(h)) : h \in BracketHosts}
    \cup {Input("bracket_zone", WithZone(h, z), PortAbsent, <<>>, Bracketed(WithZone(h, z))) :
             h \in BracketHosts, z \in Zones}
    \cup {Input("bracket_port", h, p, Itoa(p), Bracketed(h) \o <<":">> \o Itoa(p)) :
             h \in BracketHosts, p \in PortSample}
    \cup {Input("bracket_zone_port", WithZone(h, z), p, Itoa(p),
                 Bracketed(WithZone(h, z)) \o <<":">> \o Itoa(p)) :
             h \in BracketHosts, z \in Zones, p \in PortSample}
    \cup {Input("port_only", <<>>, p, Itoa(p), <<":">> \o Itoa(p)) : p \in PortSample}
    \cup {Input("unterminated", h, PortAbsent, <<>>, <<"[">> \o h) : h \in BracketHosts}
    \cup {Input("host_badport", h, PortAbsent, b, h \o <<":">> \o b) : h \in BareHosts, b \in BadPortTexts}
    \cup {Input("bracket_badport", h, PortAbsent, b, Bracketed(h) \o <<":">> \o b) :
             h \in BracketHosts, b \in BadPortTexts}

NoSplit == [host |-> <<>>, port |-> PortAbsent]

(***************************************************************************)
(* The semconv run: ClientRequest(req) on a request whose Host is the      *)
(* authority under test.  Line 56 splits req.Host; lines 54-61 build the   *)
(* attribute slice.                                                        *)
(***************************************************************************)
SemconvIdle ==
    /\ in = Input("empty", <<>>, PortAbsent, <<>>, <<>>)
    /\ req = [Method |-> <<"G", "E", "T">>, Host |-> <<>>]
    /\ spc = "off"
    /\ hp = NoSplit
    /\ attrs = <<>>

SemconvInit ==
    /\ in \in Inputs
    /\ \E m \in Methods : req = [Method |-> m, Host |-> in.hostport]
    /\ spc = "start"
    /\ hp = NoSplit
    /\ attrs = <<>>

\* ClientRequest line 56: peer, _ := splitHostPort(req.Host)
SplitStep ==
    /\ spc = "start"
    /\ hp' = splitHostPort(req.Host)
    /\ spc' = "split"
    /\ UNCHANGED <<in, req, attrs, transportVars>>

\* ClientRequest lines 53-61: the attribute slice returned
ClientRequestStep ==
    /\ spc = "split"
    /\ attrs' = ClientRequest(req)
    /\ spc' = "done"
    /\ UNCHANGED <<in, req, hp, transportVars>>

NextSemconv == SplitStep \/ ClientRequestStep

(***************************************************************************)
(* package httpclient: Transport, NewTransport, RoundTrip.                 *)
(***************************************************************************)
Calls == 1..MaxCalls

\* The requests the callers issue: caller c dispatches RequestOf(c).
Requests ==
    <<[Method |-> <<"G", "E", "T">>, Host |-> <<"a", ":", "8", "0">>, Header |-> {}],
      [Method |-> <<"P", "O", "S", "T">>, Host |-> <<"[", ":", ":", "1", "]", ":", "4", "4", "3">>,
       Header |-> {"Accept"}]>>
RequestOf(c) == Requests[((c - 1) % Len(Requests)) + 1]
NoRequest == [Method |-> <<>>, Host |-> <<>>, Header |-> {}]

Body(kind, content) == [kind |-> kind, content |-> content, read |-> 0, closed |-> FALSE]
Response(code, header, body) == [IsNil |-> FALSE, StatusCode |-> code, Header |-> header, Body |-> body]
NilResponse == [IsNil |-> TRUE, StatusCode |-> 0, Header |-> {}, Body |-> Body("none", "")]
NoError == ""

\* What the underlying RoundTripper may hand back: (response, error) pairs.
Outcomes ==
    {[res |-> Response(200, {"Content-Length"}, Body("reader", "Hello, world!")), err |-> NoError],
     [res |-> Response(101, {"Upgrade", "Connection"}, Body("readwriter", "")), err |-> NoError],
     [res |-> Response(0, {}, Body("reader", "")), err |-> NoError],
     [res |-> NilResponse, err |-> "connection refused"],
     [res |-> Response(200, {}, Body("reader", "")), err |-> "context canceled"]}
NoOutcome == [res |-> NilResponse, err |-> NoError]

\* NewTransport: a nil base becomes http.DefaultTransport; the histogram is
\* created under ClientRequestDuration with unit HistogramMeasureUnitSeconds.
NewTransport(base) ==
    [rt |-> IF base = "nil" THEN "http.DefaultTransport" ELSE base,
     httpLatency |-> [name |-> ClientRequestDuration, unit |-> HistogramMeasureUnitSeconds]]

IdleCall ==
    [pc |-> "idle", req |-> NoRequest, orig |-> NoRequest, rtReq |-> NoRequest,
     startTime |-> 0, res |-> NilResponse, err |-> NoError, rtOut |-> NoOutcome,
     extracted |-> FALSE, attrs |-> <<>>, ret |-> NoOutcome]

TransportIdle ==
    /\ t = NewTransport("nil")
    /\ now = 0
    /\ calls = [c \in Calls |-> IdleCall]
    /\ recorded = EmptyBag

TransportInit ==
    /\ \E base \in {"nil", "otelhttp.Transport"} : t = NewTransport(base)
    /\ now = 0
    /\ calls = [c \in Calls |-> IdleCall]
    /\ recorded = EmptyBag

\* float64(a) / float64(b), kept exactly as a fraction in lowest terms
RECURSIVE GCD(_, _)
GCD(a, b) == IF b = 0 THEN a ELSE GCD(b, a % b)
Abs(a) == IF a < 0 THEN -a ELSE a
Float64Div(a, b) == LET g == GCD(Abs(a), b) IN [num |-> a \div g, den |-> b \div g]

\* time.Since(startTime) at clock reading tm
Since(startTime, tm) == tm - startTime

\* Variant: the operands of the subtraction swapped.
elapsedTimeReversed(startTime, tm) == Float64Div(startTime - tm, Millisecond)

\* line 72: elapsedTime := float64(time.Since(startTime)) / float64(time.Millisecond)
elapsedTime(startTime, tm) == Float64Div(Since(startTime, tm), Millisecond)

\* The monotonic clock advances.
Tick ==
    /\ now < MaxTime
    /\ now' = now + 1
    /\ UNCHANGED <<t, calls, recorded, semconvVars>>

\* The measurement handed to t.httpLatency.Record, with the call it belongs
\* to, the elapsed nanoseconds it was computed from and the clock reading.
Measurement(c, as, tm) ==
    [call |-> c, value |-> elapsedTime(calls[c].startTime, tm),
     elapsed |-> Since(calls[c].startTime, tm), attrs |-> as, at |-> tm,
     unit |-> t.httpLatency.unit]

\* Variant: the outgoing headers are written into the caller's request.
BeginInjecting(c) ==
    /\ calls[c].pc = "idle"
    /\ LET rq == RequestOf(c)
           sent == [rq EXCEPT !.Header = @ \cup {"traceparent"}]
       IN  calls' = [calls EXCEPT ![c] = [@ EXCEPT !.pc = "started", !.req = sent, !.orig = rq,
                                                  !.rtReq = sent, !.startTime = now]]
    /\ UNCHANGED <<t, now, recorded, semconvVars>>

\* lines 61-63: startTime := time.Now(), then r is handed to t.rt.RoundTrip
Begin(c) ==
    /\ calls[c].pc = "idle"
    /\ LET rq == RequestOf(c)
       IN  calls' = [calls EXCEPT ![c] = [@ EXCEPT !.pc = "started", !.req = rq, !.orig = rq,
                                                  !.rtReq = rq, !.startTime = now]]
    /\ UNCHANGED <<t, now, recorded, semconvVars>>

\* line 63: t.rt.RoundTrip(r) comes back with (res, err)
RtReturn(c) ==
    /\ calls[c].pc = "started"
    /\ \E out \in Outcomes :
         calls' = [calls EXCEPT ![c] = [@ EXCEPT !.pc = "returned", !.res = out.res,
                                                  !.err = out.err, !.rtOut = out]]
    /\ UNCHANGED <<t, now, recorded, semconvVars>>

\* Variant: the measurement is taken before the error check.
ErrReturnRecording(c) ==
    /\ calls[c].pc = "returned"
    /\ calls[c].err # NoError
    /\ LET as == ClientRequest(calls[c].req) \o ClientResponse(calls[c].res)
       IN  /\ calls' = [calls EXCEPT ![c] = [@ EXCEPT !.pc = "done", !.extracted = TRUE, !.attrs = as,
                                                      !.ret = [res |-> calls[c].res, err |-> calls[c].err]]]
           /\ recorded' = recorded (+) SetToBag({Measurement(c, as, now)})
    /\ UNCHANGED <<t, now, semconvVars>>

\* lines 64-66: if err != nil { return res, err }
ErrReturn(c) ==
    /\ calls[c].pc = "returned"
    /\ calls[c].err # NoError
    /\ calls' = [calls EXCEPT ![c] = [@ EXCEPT !.pc = "done",
                                               !.ret = [res |-> calls[c].res, err |-> calls[c].err]]]
    /\ UNCHANGED <<t, now, recorded, semconvVars>>

\* Variant: the start time lives in one place shared by all calls, so a call
\* measures from the latest start among the calls in progress.
RecordSharedStart(c) ==
    /\ calls[c].pc = "returned"
    /\ calls[c].err = NoError
    /\ LET as == ClientRequest(calls[c].req) \o ClientResponse(calls[c].res)
           begun == {d \in Calls : calls[d].pc # "idle"}
           shared == CHOOSE x \in {calls[d].startTime : d \in begun} :
                         \A d \in begun : calls[d].startTime <= x
           m == [Measurement(c, as, now) EXCEPT !.value = elapsedTime(shared, now),
                                                !.elapsed = Since(shared, now)]
       IN  /\ calls' = [calls EXCEPT ![c] = [@ EXCEPT !.pc = "recorded", !.extracted = TRUE,
                                                      !.attrs = as]]
           /\ recorded' = recorded (+) SetToBag({m})
    /\ UNCHANGED <<t, now, semconvVars>>

\* lines 68-73: attrs, elapsedTime, t.httpLatency.Record(...)
Record(c) ==
    /\ calls[c].pc = "returned"
    /\ calls[c].err = NoError
    /\ LET as == ClientRequest(calls[c].req) \o ClientResponse(calls[c].res)
       IN  /\ calls' = [calls EXCEPT ![c] = [@ EXCEPT !.pc = "recorded", !.extracted = TRUE,
                                                      !.attrs = as]]
           /\ recorded' = recorded (+) SetToBag({Measurement(c, as, now)})
    /\ UNCHANGED <<t, now, semconvVars>>

\* Variant: the body is handed back inside a read-only wrapper.
ReturnWrapped(c) ==
    /\ calls[c].pc = "recorded"
    /\ calls' = [calls EXCEPT ![c] = [@ EXCEPT !.pc = "done",
                     !.ret = [res |-> [calls[c].res EXCEPT !.Body.kind = "reader"],
                              err |-> calls[c].err]]]
    /\ UNCHANGED <<t, now, recorded, semconvVars>>

\* line 75: return res, err
Return(c) ==
    /\ calls[c].pc = "recorded"
    /\ calls' = [calls EXCEPT ![c] = [@ EXCEPT !.pc = "done",
                                               !.ret = [res |-> calls[c].res, err |-> calls[c].err]]]
    /\ UNCHANGED <<t, now, recorded, semconvVars>>

RoundTrip(c) == Begin(c) \/ RtReturn(c) \/ ErrReturn(c) \/ Record(c) \/ Return(c)

Init == TransportInit /\ SemconvIdle
Next == Tick \/ \E c \in Calls : RoundTrip(c)
Spec == Init /\ [][Next]_vars

InitSemconv == SemconvInit /\ TransportIdle
SpecSemconv == InitSemconv /\ [][NextSemconv]_vars

(***************************************************************************)
(* Helpers for the properties.                                             *)
(***************************************************************************)
Measurements == BagToSet(recorded)

RECURSIVE SumCopies(_)
SumCopies(S) ==
    IF S = {} THEN 0
    ELSE LET m == CHOOSE x \in S : TRUE IN CopiesIn(m, recorded) + SumCopies(S \ {m})

\* how many measurements the histogram holds for call c
CountFor(c) == SumCopies({m \in Measurements : m.call = c})

Succeeded(c) == calls[c].pc \in {"returned", "recorded", "done"} /\ calls[c].rtOut.err = NoError
Failed(c) == calls[c].pc \in {"returned", "done"} /\ calls[c].rtOut.err # NoError

KeysOf(as) == {as[i].Key : i \in DOMAIN as}
NoKeyTwice(as) == \A i, j \in DOMAIN as : i # j => as[i].Key # as[j].Key

\* the authority contains a ':' outside a leading bracket pair
ReachesFullParse(s) ==
    IF HasPrefix(s, "[")
    THEN LastIndex(s, "]") >= 0 /\ LastIndex(SliceFrom(s, LastIndex(s, "]")), ":") >= 0
    ELSE LastIndex(s, ":") >= 0
TrailingPortText(s) == SliceFrom(s, LastIndex(s, ":") + 1)
BadTrailingPort(s) == ReachesFullParse(s) /\ ParseUint(TrailingPortText(s)).err

(***************************************************************************)
(* C1: for every RoundTrip call whose underlying RoundTripper returned     *)
(* without error, exactly one measurement is recorded, its value is not    *)
(* negative, and it is recorded after the underlying call returned (none   *)
(* while the call is idle, in the underlying call, or just back from it)   *)
(* and before RoundTrip returns (it is there in "recorded", ahead of       *)
(* "done").                                                                *)
(***************************************************************************)
OneMeasurementPerSuccess ==
    /\ \A c \in Calls :
         /\ calls[c].pc \in {"idle", "started", "returned"} => CountFor(c) = 0
         /\ (Succeeded(c) /\ calls[c].pc \in {"recorded", "done"}) => CountFor(c) = 1
    /\ \A m \in Measurements :
         /\ m.value.num >= 0 /\ m.value.den > 0
         /\ m.elapsed >= 0
         /\ Succeeded(m.call)

SuccessMeasuredWitness ==
    \E c \in Calls :
        /\ calls[c].pc = "done" /\ Succeeded(c) /\ CountFor(c) = 1
        /\ \E m \in Measurements : m.call = c /\ m.value.num > 0

(***************************************************************************)
(* C2: for every RoundTrip call whose underlying RoundTripper returned an  *)
(* error, no measurement is recorded, no attribute extraction is done, and *)
(* RoundTrip returns exactly the (response, error) pair it was handed.     *)
(***************************************************************************)
FailureUnmeasuredAndUnchanged ==
    \A c \in Calls :
        Failed(c) =>
            /\ CountFor(c) = 0
            /\ ~calls[c].extracted /\ calls[c].attrs = <<>>
            /\ calls[c].pc = "done" => calls[c].ret = calls[c].rtOut

FailureReturnedWitness ==
    \E c \in Calls :
        /\ calls[c].pc = "done" /\ Failed(c)
        /\ ~calls[c].ret.res.IsNil /\ calls[c].ret.err = "context canceled"
        /\ \E d \in Calls : d # c /\ CountFor(d) = 1

(***************************************************************************)
(* C3: ClientRequest(req) holds a server-address label if and only if      *)
(* splitHostPort(req.Host) yields a non-empty host, the label's value is   *)
(* exactly that host (bracketed IPv6 authorities included), and the label  *)
(* never has an empty value.                                               *)
(***************************************************************************)
ServerAddressIffSplitHost ==
    spc = "done" =>
        LET labels == {i \in DOMAIN attrs : attrs[i].Key = serverAddressKey}
        IN  /\ (hp.host # <<>>) <=> (labels # {})
            /\ \A i \in labels : attrs[i].Value.Stringly = hp.host
            /\ \A i \in labels : attrs[i].Value.Stringly # <<>>

(***************************************************************************)
(* C4: in every measurement recorded by RoundTrip the attribute set has no *)
(* key twice: the status code is stored under its own key, so that for a   *)
(* status code > 0 the method label and the status-code label are both     *)
(* present.                                                                *)
(***************************************************************************)
MeasurementKeysDistinct ==
    \A m \in Measurements :
        /\ NoKeyTwice(m.attrs)
        /\ calls[m.call].res.StatusCode > 0 =>
               {httpRequestMethodKey, httpResponseStatusCodeKey} \subseteq KeysOf(m.attrs)

(***************************************************************************)
(* C5 as claimed: an authority that reaches the full host:port parse with  *)
(* a trailing port text that is no unsigned 16-bit integer gives host = "" *)
(* and port = absent.                                                      *)
(***************************************************************************)
BadPortClearsHost ==
    (spc # "start" /\ BadTrailingPort(req.Host)) => hp = [host |-> <<>>, port |-> PortAbsent]

(***************************************************************************)
(* C5 as amended: such an authority gives port = absent and the host that  *)
(* net.SplitHostPort parsed ("h:bad" and "[h]:bad" give host h); the host  *)
(* is "" only where net.SplitHostPort rejects the authority or the host    *)
(* part is empty.                                                          *)
(***************************************************************************)
BadPortKeepsParsedHost ==
    (spc # "start" /\ BadTrailingPort(req.Host)) =>
        /\ hp.port = PortAbsent
        /\ hp.host = SplitHostPort(req.Host).host
        /\ in.form \in {"host_badport", "bracket_badport"} => hp.host = in.h
        /\ (hp.host = <<>>) <=>
               (SplitHostPort(req.Host).err \/ SplitHostPort(req.Host).host = <<>>)

BadPortWitness ==
    /\ spc = "split"
    /\ in.form = "host_badport" /\ in.ptxt = <<"6", "5", "5", "3", "6">>
    /\ BadTrailingPort(req.Host)
    /\ hp.host = in.h /\ hp.host # <<>> /\ hp.port = PortAbsent

(***************************************************************************)
(* C6: for every well-formed authority splitHostPort returns the host      *)
(* without brackets and the port as an integer, or absent when no port is  *)
(* written: "h", "h:p", "[h]", "[h%zone]", "[h]:p", "[h%zone]:p", ":p",    *)
(* for every p in 0..65535 (port 0 is 0, not absent); the empty authority  *)
(* and a '[' with no ']' give ("", absent).                                *)
(***************************************************************************)
AllPorts == 0..MaxUint16

WellFormedSplit ==
    /\ spc # "start" =>
         /\ in.form \in {"host", "bracket", "bracket_zone"} =>
                hp = [host |-> in.h, port |-> PortAbsent]
         /\ in.form \in {"host_port", "bracket_port", "bracket_zone_port"} =>
                hp = [host |-> in.h, port |-> in.p] /\ hp.port # PortAbsent
         /\ in.form = "port_only" => hp = [host |-> <<>>, port |-> in.p] /\ hp.port # PortAbsent
         /\ in.form \in {"empty", "unterminated"} => hp = [host |-> <<>>, port |-> PortAbsent]
    \* the whole port range, once, on the first well-formed inputs
    /\ (spc = "start" /\ in.form = "empty") =>
         \A p \in AllPorts :
             /\ splitHostPort(<<"a", ":">> \o Itoa(p)) = [host |-> <<"a">>, port |-> p]
             /\ splitHostPort(<<"[", ":", ":", "1", "]", ":">> \o Itoa(p))
                    = [host |-> <<":", ":", "1">>, port |-> p]
             /\ splitHostPort(<<":">> \o Itoa(p)) = [host |-> <<>>, port |-> p]

WellFormedSplitWitness ==
    /\ spc = "split"
    /\ in.form = "bracket_zone_port" /\ in.p = 0
    /\ hp.host = <<":", ":", "1", "%", "e">> /\ hp.port = 0

ResponseReturnedUntouched ==
    \A c \in Calls :
        /\ Succeeded(c) => calls[c].res = calls[c].rtOut.res
        /\ (Succeeded(c) /\ calls[c].pc = "done") =>
               /\ calls[c].ret = calls[c].rtOut
               /\ calls[c].ret.res.Body.read = 0 /\ ~calls[c].ret.res.Body.closed
               /\ calls[c].ret.res.StatusCode = 101 => calls[c].ret.res.Body.kind = "readwriter"
               /\ calls[c].ret.res.StatusCode = 200 => calls[c].ret.res.Body.content = "Hello, world!"

ProtocolSwitchWitness ==
    \E c \in Calls :
        /\ calls[c].pc = "done" /\ Succeeded(c)
        /\ calls[c].ret.res.StatusCode = 101 /\ calls[c].ret.res.Body.kind = "readwriter"
        /\ CountFor(c) = 1

(***************************************************************************)
(* C9: under any interleaving of concurrent RoundTrip calls the fields of  *)
(* the Transport are never written after NewTransport, the number of       *)
(* measurements equals the number of calls whose dispatch succeeded (and   *)
(* that reached Record), and each measurement carries the start time, the  *)
(* request attributes and the response attributes of its own call.         *)
(***************************************************************************)
OwnMeasurements ==
    /\ BagCardinality(recorded)
           = Cardinality({c \in Calls : Succeeded(c) /\ calls[c].pc \in {"recorded", "done"}})
    /\ \A m \in Measurements :
         /\ CopiesIn(m, recorded) = 1
         /\ m.elapsed = m.at - calls[m.call].startTime
         /\ m.value = Float64Div(m.at - calls[m.call].startTime, Millisecond)
         /\ m.attrs = ClientRequest(RequestOf(m.call)) \o ClientResponse(calls[m.call].rtOut.res)
         /\ m.attrs = calls[m.call].attrs

CallsIndependent == []OwnMeasurements /\ [][t' = t]_vars

ConcurrentCallsWitness ==
    \E c, d \in Calls :
        /\ c # d
        /\ calls[c].pc = "recorded" /\ calls[d].pc = "recorded"
        /\ calls[c].startTime # calls[d].startTime
        /\ \E m, n \in Measurements :
             m.call = c /\ n.call = d /\ m.elapsed # n.elapsed /\ m.attrs # n.attrs

(***************************************************************************)
(* C10: the value recorded is the elapsed time in seconds, the unit the    *)
(* histogram is declared with: N nanoseconds are recorded as N / 10^9.     *)
(***************************************************************************)
RecordedInDeclaredUnit ==
    \A m \in Measurements :
        m.unit = HistogramMeasureUnitSeconds => m.value = Float64Div(m.elapsed, NanosPerSecond)

====
